---- MODULE Spec2Model ----
(***************************************************************************)
(* A model of the SiteFactory worker: the origin guard (CORS middleware)   *)
(* and the project resource handlers in their three persistence variants   *)
(* (embedded store with name only, embedded store with description,        *)
(* remote REST database service), and the completion and media search     *)
(* proxies.                                                                *)
(*                                                                         *)
(* Text values are sequences of one-character strings, so that trim,       *)
(* split and the wildcard patterns are computed as the code computes them. *)
(***************************************************************************)
EXTENDS Integers, Sequences, FiniteSets, TLC

\* ------------------------------------------------------------------ bounds

\* Largest id the backend hands out (caps the number of inserts of a run).
MaxId == 2
\* Largest value of the millisecond clock read by new Date().
MaxClock == 1

\* Longest ORIGIN setting and longest Origin header of the matching study.
MaxListLen == 4
MaxOriginLen == 3

\* Request slots: slot 1 is the request under study, slot 2 a concurrent client.
Slots == {1, 2}

\* ------------------------------------------------------------------ text

\* WhiteSpace and LineTerminator, the characters that String.prototype.trim
\* and Number.parseInt strip: blank, tab, line feed, carriage return, form
\* feed, and, written by code point, vertical tab, no-break space, byte
\* order mark, the line and paragraph separators and the space separators.
Whitespace ==
  {" ", "\t", "\n", "\r", "\f", "U+000B", "U+00A0", "U+FEFF", "U+2028", "U+2029",
   "U+1680", "U+2000", "U+2001", "U+2002", "U+2003", "U+2004", "U+2005", "U+2006",
   "U+2007", "U+2008", "U+2009", "U+200A", "U+202F", "U+205F", "U+3000"}
Digits == <<"0", "1", "2", "3", "4", "5", "6", "7", "8", "9">>

\* Reserved values that are not strings of characters.
Absent == <<"absent">>
Null == <<"null">>
NonString == <<"nonstring">>

IsString(v) == v \notin {Absent, Null, NonString}

RECURSIVE TrimStart(_)
TrimStart(s) ==
  IF s # <<>> /\ Head(s) \in Whitespace THEN TrimStart(Tail(s)) ELSE s

RECURSIVE TrimEnd(_)
TrimEnd(s) ==
  IF s # <<>> /\ s[Len(s)] \in Whitespace
  THEN TrimEnd(SubSeq(s, 1, Len(s) - 1))
  ELSE s

\* String.prototype.trim
Trim(s) == TrimEnd(TrimStart(s))

IndexOf(s, c) ==
  IF \E i \in 1..Len(s) : s[i] = c
  THEN CHOOSE i \in 1..Len(s) : s[i] = c /\ \A j \in 1..(i - 1) : s[j] # c
  ELSE 0

\* String.prototype.split with a one-character separator
RECURSIVE Split(_, _)
Split(s, c) ==
  LET i == IndexOf(s, c) IN
  IF i = 0
  THEN <<s>>
  ELSE <<SubSeq(s, 1, i - 1)>> \o Split(SubSeq(s, i + 1, Len(s)), c)

\* Array.prototype.filter((origin) => origin.length > 0)
RECURSIVE FilterNonEmpty(_)
FilterNonEmpty(xs) ==
  IF xs = <<>> THEN <<>>
  ELSE (IF Len(Head(xs)) > 0 THEN <<Head(xs)>> ELSE <<>>) \o FilterNonEmpty(Tail(xs))

RECURSIVE Join(_, _)
Join(parts, sep) ==
  IF parts = <<>> THEN <<>>
  ELSE IF Len(parts) = 1 THEN parts[1]
  ELSE parts[1] \o sep \o Join(Tail(parts), sep)

\* ------------------------------------------------------------------ origin guard

\* The characters escapeRegex puts a backslash in front of (those of them
\* that occur in the modelled alphabet are "." and "*").
RegexSpecial == {".", "*", "+", "?", "^", "$", "{", "}", "(", ")", "|", "[", "]", "\\"}

escapeRegexNothing(value) == value

RECURSIVE escapeRegex(_)
escapeRegex(value) ==
  IF value = <<>> THEN <<>>
  ELSE (IF Head(value) \in RegexSpecial THEN <<"\\", Head(value)>> ELSE <<Head(value)>>)
       \o escapeRegex(Tail(value))

\* new RegExp(pattern) on the fragment the guard builds: a sequence of atoms,
\* each a literal character (escaped or plain) or "." (any character),
\* optionally followed by "*"; "^" and "$" anchor both ends.
RECURSIVE RegexAtoms(_)
RegexAtoms(p) ==
  IF p = <<>> THEN <<>>
  ELSE LET esc == Head(p) = "\\" /\ Len(p) >= 2
           n == IF esc THEN 2 ELSE 1
           atom == IF esc THEN [any |-> FALSE, ch |-> p[2]]
                   ELSE IF Head(p) = "." THEN [any |-> TRUE, ch |-> "."]
                   ELSE [any |-> FALSE, ch |-> Head(p)]
           star == Len(p) > n /\ p[n + 1] = "*"
           rest == SubSeq(p, n + (IF star THEN 2 ELSE 1), Len(p))
       IN <<[any |-> atom.any, ch |-> atom.ch, star |-> star]>> \o RegexAtoms(rest)

\* The characters that "." does not match (the pattern has no s flag).
LineTerminators == {"\n", "\r", "U+2028", "U+2029"}

RECURSIVE AtomsMatch(_, _)
AtomsMatch(atoms, s) ==
  IF atoms = <<>> THEN s = <<>>
  ELSE LET a == Head(atoms)
           one == s # <<>> /\ (IF a.any THEN Head(s) \notin LineTerminators
                                ELSE a.ch = Head(s))
       IN IF a.star
          THEN AtomsMatch(Tail(atoms), s) \/ (one /\ AtomsMatch(atoms, Tail(s)))
          ELSE one /\ AtomsMatch(Tail(atoms), Tail(s))

\* RegExp.prototype.test for a pattern of the form ^...$
RegexTest(pattern, s) ==
  AtomsMatch(RegexAtoms(SubSeq(pattern, 2, Len(pattern) - 1)), s)

Includes(s, c) == IndexOf(s, c) # 0


\* .map(escapeRegex)
EscapeAll(parts) == [i \in 1..Len(parts) |-> escapeRegex(parts[i])]

\* .map((origin) => origin.trim())
TrimAll(entries) == [i \in 1..Len(entries) |-> Trim(entries[i])]

\* An OriginMatcher: its value and, for a wildcard entry, its pattern source.
Matcher(origin) ==
  IF Includes(origin, "*")
  THEN [value |-> origin, wild |-> TRUE,
        regex |-> <<"^">> \o Join(EscapeAll(Split(origin, "*")), <<".", "*">>) \o <<"$">>]
  ELSE [value |-> origin, wild |-> FALSE, regex |-> <<>>]

parseAllowedOrigins(raw) ==
  LET entries == FilterNonEmpty(TrimAll(Split(raw, ",")))
  IN [i \in 1..Len(entries) |-> Matcher(entries[i])]

RECURSIVE findMatchingOriginEchoPattern(_, _)
findMatchingOriginEchoPattern(requestOrigin, allowed) ==
  IF requestOrigin = <<>> \/ allowed = <<>> THEN <<>>
  ELSE LET origin == Head(allowed) IN
       IF origin.wild /\ RegexTest(origin.regex, requestOrigin) THEN origin.value
       ELSE IF ~origin.wild /\ origin.value = requestOrigin THEN origin.value
       ELSE findMatchingOriginEchoPattern(requestOrigin, Tail(allowed))

\* The matched origin, or the empty text (the code's null) when none matches.
RECURSIVE findMatchingOrigin(_, _)
findMatchingOrigin(requestOrigin, allowed) ==
  IF requestOrigin = <<>> \/ allowed = <<>> THEN <<>>
  ELSE LET origin == Head(allowed) IN
       IF origin.wild /\ RegexTest(origin.regex, requestOrigin) THEN requestOrigin
       ELSE IF ~origin.wild /\ origin.value = requestOrigin THEN origin.value
       ELSE findMatchingOrigin(requestOrigin, Tail(allowed))


\* ------------------------------------------------------------------ requests and responses

Variants == {"d1", "d1desc", "supabase"}

ALLOWED_METHODS == "GET,POST,PATCH,DELETE,OPTIONS"

\* A request body: kind is "object" (a JSON object), "badjson" (not JSON),
\* "falsy" (the JSON null) or "none"; a field not in the object is Absent.
NoBody ==
  [kind |-> "none", name |-> Absent, description |-> Absent, prompt |-> Absent, model |-> Absent]

\* The query string: c.req.query(key) is Absent (undefined) for a missing key.
NoQuery == [query |-> Absent, page |-> Absent, per_page |-> Absent]

NoReq ==
  [method |-> "NONE", path |-> "none", id |-> <<>>, body |-> NoBody, origin |-> <<>>,
   query |-> NoQuery]

NoHeaders == [acao |-> <<>>, vary |-> "", methods |-> "", headers |-> "", maxAge |-> ""]

\* A response: kind is "error" ({error}), "record" (one project), "list",
\* "ok" ({ok: true}), "null" (the JSON null), "empty" (no body), "text"
\* ({text}) or "photos" (the normalized search result).
Response(status, kind, error, items) ==
  [status |-> status, kind |-> kind, error |-> error, items |-> items, headers |-> NoHeaders]

NoResp == Response(0, "none", "", <<>>)

\* c.json({ error }, status)
JsonError(status, error) == Response(status, "error", error, <<>>)

CorsHeaders(matchedOrigin) ==
  [acao |-> matchedOrigin,
   vary |-> IF matchedOrigin # <<>> THEN "Origin" ELSE "",
   methods |-> ALLOWED_METHODS,
   headers |-> "Content-Type",
   maxAge |-> "86400"]

\* The guard's decision for a request, before any handler: reject (403),
\* answer the preflight (204), or call next().
OriginGuardNoReject(request, originConfig) ==
  LET matchedOrigin == findMatchingOrigin(request.origin, parseAllowedOrigins(originConfig)) IN
  IF request.method = "OPTIONS"
  THEN [next |-> FALSE,
        resp |-> [Response(204, "empty", "", <<>>) EXCEPT !.headers = CorsHeaders(matchedOrigin)]]
  ELSE [next |-> TRUE, resp |-> NoResp]

OriginGuardDispatchesOptions(request, originConfig) ==
  LET matchedOrigin == findMatchingOrigin(request.origin, parseAllowedOrigins(originConfig)) IN
  IF request.origin # <<>> /\ matchedOrigin = <<>>
  THEN [next |-> FALSE, resp |-> JsonError(403, "Origin not allowed")]
  ELSE [next |-> TRUE, resp |-> NoResp]

OriginGuard(request, originConfig) ==
  LET matchedOrigin == findMatchingOrigin(request.origin, parseAllowedOrigins(originConfig)) IN
  IF request.origin # <<>> /\ matchedOrigin = <<>>
  THEN [next |-> FALSE, resp |-> JsonError(403, "Origin not allowed")]
  ELSE IF request.method = "OPTIONS"
  THEN [next |-> FALSE,
        resp |-> [Response(204, "empty", "", <<>>) EXCEPT !.headers = CorsHeaders(matchedOrigin)]]
  ELSE [next |-> TRUE, resp |-> NoResp]

StampHeadersWhenMatched(response, request, originConfig) ==
  LET matchedOrigin == findMatchingOrigin(request.origin, parseAllowedOrigins(originConfig)) IN
  [response EXCEPT !.headers = IF matchedOrigin # <<>> THEN CorsHeaders(matchedOrigin)
                                ELSE NoHeaders]

\* The part of the guard that runs after next(): the headers set on c.res.
StampHeaders(response, request, originConfig) ==
  [response EXCEPT !.headers =
     CorsHeaders(findMatchingOrigin(request.origin, parseAllowedOrigins(originConfig)))]

\* Number.parseInt(value, 10): optional blanks, optional sign, then the
\* longest run of digits; NaN when there is no digit.
DigitValue(c) == (CHOOSE i \in 1..10 : Digits[i] = c) - 1
IsDigit(c) == \E i \in 1..10 : Digits[i] = c

RECURSIVE DigitsPrefix(_, _)
DigitsPrefix(s, acc) ==
  IF s # <<>> /\ IsDigit(Head(s))
  THEN DigitsPrefix(Tail(s), acc * 10 + DigitValue(Head(s)))
  ELSE acc

ParseInt(value) ==
  LET t == TrimStart(value)
      neg == t # <<>> /\ Head(t) = "-"
      u == IF t # <<>> /\ Head(t) \in {"-", "+"} THEN Tail(t) ELSE t
  IN IF u = <<>> \/ ~IsDigit(Head(u))
     THEN [nan |-> TRUE, val |-> 0]
     ELSE [nan |-> FALSE, val |-> IF neg THEN 0 - DigitsPrefix(u, 0) ELSE DigitsPrefix(u, 0)]

\* The route a request is dispatched to.
Route(request) ==
  CASE request.method = "GET" /\ request.path = "health" -> "health"
    [] request.method = "GET" /\ request.path = "projects" -> "list"
    [] request.method = "GET" /\ request.path = "project" -> "get"
    [] request.method = "POST" /\ request.path = "projects" -> "create"
    [] request.method = "PATCH" /\ request.path = "project" -> "update"
    [] request.method = "DELETE" /\ request.path = "project" -> "delete"
    [] request.method = "POST" /\ request.path = "ai" -> "ai"
    [] request.method = "GET" /\ request.path = "pexels" -> "pexels"
    [] OTHER -> "notFound"


\* ------------------------------------------------------------------ handlers: validation

Pass == [done |-> FALSE, resp |-> NoResp]
Done(response) == [done |-> TRUE, resp |-> response]

\* projects.post('/'): the body check, the same in the three variants.
CreateValidationNoTrim(body) ==
  IF body.kind # "object" \/ ~IsString(body.name) \/ Len(body.name) = 0
  THEN Done(JsonError(400, "Name is required"))
  ELSE Pass

CreateValidationMissingOnly(body) ==
  IF body.kind # "object" \/ body.name = Absent
  THEN Done(JsonError(400, "Name is required"))
  ELSE Pass

CreateValidation(body) ==
  IF body.kind # "object" \/ ~IsString(body.name) \/ Len(Trim(body.name)) = 0
  THEN Done(JsonError(400, "Name is required"))
  ELSE Pass

\* projects.patch('/:id'): the body check and the fields to update. A field
\* of the result is Absent when it is not to be written.
NoUpdates == [name |-> Absent, description |-> Absent]

PatchUpdates(variant, body) ==
  IF variant = "d1"
  THEN IF body.kind # "object" \/ ~IsString(body.name)
       THEN [resp |-> JsonError(400, "Name is required"), updates |-> NoUpdates]
       ELSE IF Len(Trim(body.name)) = 0
       THEN [resp |-> JsonError(400, "Name cannot be empty"), updates |-> NoUpdates]
       ELSE [resp |-> NoResp, updates |-> [name |-> Trim(body.name), description |-> Absent]]
  ELSE IF body.kind # "object"
       THEN [resp |-> JsonError(400, "Invalid payload"), updates |-> NoUpdates]
       ELSE IF IsString(body.name) /\ Len(Trim(body.name)) = 0
       THEN [resp |-> JsonError(400, "Name cannot be empty"), updates |-> NoUpdates]
       ELSE LET updates ==
                  [name |-> IF IsString(body.name) THEN Trim(body.name) ELSE Absent,
                   description |-> IF IsString(body.description) THEN Trim(body.description)
                                   ELSE IF body.description = Null THEN Null
                                   ELSE Absent]
            IN IF updates = NoUpdates
               THEN [resp |-> JsonError(400, "No fields provided to update"), updates |-> NoUpdates]
               ELSE [resp |-> NoResp, updates |-> updates]

\* ensureSupabase: the remote variant needs its URL and key.
ensureSupabase(variant, configured) ==
  IF variant = "supabase" /\ ~configured
  THEN Done(JsonError(500, "Supabase not configured"))
  ELSE Pass

InvalidId == Done(JsonError(400, "Invalid project id"))

\* A handler up to its first backend call: the response when it returns
\* before calling the backend, Pass when it goes on to call it.
HandlerStart(variant, configured, request) ==
  LET route == Route(request)
      id == ParseInt(request.id)
  IN CASE route = "health" -> Done(Response(200, "ok", "", <<>>))
       [] route = "notFound" -> Done(JsonError(404, "Not found"))
       [] route = "list" -> ensureSupabase(variant, configured)
       [] route \in {"get", "delete"} ->
            IF id.nan THEN InvalidId ELSE ensureSupabase(variant, configured)
       [] route = "create" ->
            IF CreateValidation(request.body).done
            THEN CreateValidation(request.body)
            ELSE ensureSupabase(variant, configured)
       [] route = "update" ->
            IF id.nan THEN InvalidId
            ELSE IF PatchUpdates(variant, request.body).resp # NoResp
            THEN Done(PatchUpdates(variant, request.body).resp)
            ELSE ensureSupabase(variant, configured)


\* ------------------------------------------------------------------ state

VARIABLES
  variant,            \* which persistence variant of the project routes is deployed
  originConfig,       \* c.env.ORIGIN, the comma-separated allow-list
  supabaseConfigured, \* SUPABASE_URL and SUPABASE_SERVICE_ROLE_KEY are set
  store,              \* the rows of the projects table
  nextId,             \* the id the backend assigns to the next inserted row
  lastRowid,          \* last_insert_rowid() of the embedded store's connection
  clock,              \* the millisecond clock behind new Date()
  pc,                 \* per request: "idle", "call", "readback", "done"
  req,                \* per request: the request being handled
  loc,                \* per request: the handler's locals (createdAt, last_row_id)
  resp,               \* per request: the response, once there is one
  descriptionDefault, \* the default of the description column in the remote database
  changesAtTop,       \* statement.run() reports changes at the top level of its result too
  openaiKey,          \* c.env.OPENAI_API_KEY is set
  pexelsKey           \* c.env.PEXELS_API_KEY is set

vars == <<variant, originConfig, supabaseConfigured, store, nextId, lastRowid, clock,
          pc, req, loc, resp, descriptionDefault, changesAtTop, openaiKey, pexelsKey>>

env == <<variant, originConfig, supabaseConfigured, descriptionDefault, changesAtTop,
         openaiKey, pexelsKey>>
db == <<store, nextId, lastRowid>>

\* What a handler sends to its backend or upstream: the fields of the insert
\* or update (Absent: not sent), the search parameters, the completion request.
NoSent ==
  [called |-> FALSE, name |-> Absent, description |-> Absent,
   query |-> Absent, page |-> 0, per_page |-> 0, model |-> Absent, prompt |-> Absent]

\* A handler's locals: createdAt, the insert's last_row_id, what it sent, and
\* how its latest backend step ended (with the status of a failure response).
NoLoc == [createdAt |-> 0, rowid |-> 0, sent |-> NoSent, outcome |-> "none", status |-> 0]

\* ------------------------------------------------------------------ the backend

\* What a backend call can do: answer, report a failure, throw, or answer
\* with a body that the following response.json() cannot parse.
Outcomes == {"ok", "error", "throw", "parse"}

\* The embedded store hands over rows, there is no parsing step after its call.
StepOutcomes(v) == IF v = "supabase" THEN Outcomes ELSE Outcomes \ {"parse"}

\* The backend carried the statement out (whether or not its answer can be read).
Applied(outcome) == outcome \in {"ok", "parse"}

\* The locals after a backend step.
Stepped(locals, v, outcome, failure) ==
  [locals EXCEPT !.outcome = outcome,
                 !.status = IF outcome = "error" /\ v = "supabase" THEN failure.status ELSE 0]

\* A field of a parsed JSON object as the code reads it: whether the value
\* is truthy, and String(value).
Falsy == [truthy |-> FALSE, text |-> ""]
Truthy(text) == [truthy |-> TRUE, text |-> text]

\* JSON.parse of a body text: kind is "invalid" (it throws), "string",
\* "object" (an object or an array) or "other" (null, a number, a boolean).
NotJson == [kind |-> "invalid", text |-> "", message |-> Falsy, error |-> Falsy, hint |-> Falsy]
JsonString(text) == [NotJson EXCEPT !.kind = "string", !.text = text]
JsonObject(message, error, hint) ==
  [NotJson EXCEPT !.kind = "object", !.message = message, !.error = error, !.hint = hint]
JsonOther == [NotJson EXCEPT !.kind = "other"]

\* The error field of a statement result: undefined, or a text.
NoError == [defined |-> FALSE, text |-> ""]
ErrorText(text) == [defined |-> TRUE, text |-> text]

\* A reported failure: for the remote service the response's status, its
\* body text and what the text parses to; for the embedded store the error
\* field of the statement result.
Failure(status, body, json, error) ==
  [status |-> status, body |-> body, json |-> json, error |-> error]

\* Failure responses of the remote database service and of the upstreams.
UpstreamFailures ==
  {Failure(404, "upstream message", NotJson, NoError),
   Failure(400, "{\"message\":\"m\"}", JsonObject(Truthy("m"), Falsy, Falsy), NoError),
   Failure(409, "{\"message\":\"\",\"hint\":\"h\"}",
           JsonObject(Falsy, Falsy, Truthy("h")), NoError),
   Failure(500, "\"\"", JsonString(""), NoError),
   Failure(503, "null", JsonOther, NoError),
   Failure(302, "", NotJson, NoError)}

\* Unsuccessful statement results of the embedded store: { success: false }
\* without error, with an empty error, with an error text.
StatementFailures ==
  {Failure(0, "", NotJson, NoError),
   Failure(0, "", NotJson, ErrorText("")),
   Failure(0, "", NotJson, ErrorText("statement failed"))}

Failures(v) == IF v = "supabase" THEN UpstreamFailures ELSE StatementFailures

\* The description column's default in the remote database: the schema is
\* not part of the worker, the default may be NULL or a text.
DescriptionDefaults == {Null, <<"-">>}

\* SELECT ... WHERE id = ?
Select(rows, id) ==
  IF \E p \in rows : p.id = id THEN <<CHOOSE p \in rows : p.id = id>> ELSE <<>>

ListingsAnyOrder(rows) ==
  {s \in [1..Cardinality(rows) -> rows] :
     \A i, j \in 1..Cardinality(rows) : i # j => s[i] # s[j]}

\* SELECT ... ORDER BY created_at DESC: every order of the rows that is
\* non-increasing in created_at (rows with equal created_at in any order).
Listings(rows) ==
  {s \in [1..Cardinality(rows) -> rows] :
     /\ \A i, j \in 1..Cardinality(rows) : i # j => s[i] # s[j]
     /\ \A i, j \in 1..Cardinality(rows) : i < j => s[i].created_at >= s[j].created_at}

\* UPDATE projects SET ... WHERE id = ?
UpdatedRow(p, updates) ==
  [p EXCEPT !.name = IF updates.name = Absent THEN @ ELSE updates.name,
            !.description = IF updates.description = Absent THEN @ ELSE updates.description]

UpdateRows(rows, id, updates) ==
  {IF p.id = id THEN UpdatedRow(p, updates) ELSE p : p \in rows}

\* DELETE FROM projects WHERE id = ?
DeleteRows(rows, id) == {p \in rows : p.id # id}

normalizeProject(row) ==
  [id |-> row.id, name |-> row.name, description |-> Absent, created_at |-> row.created_at]

\* (parsed.field && String(parsed.field)): the text, or a falsy value (here
\* the empty text) that makes the || chain go on.
FieldText(field) == IF field.truthy THEN field.text ELSE ""

\* respondWithSupabaseError
respondWithSupabaseError(failure) ==
  LET rawBody == failure.body
      parsed == failure.json
      message ==
        IF rawBody = "" THEN "Supabase request failed"
        ELSE CASE parsed.kind = "invalid" -> rawBody
               [] parsed.kind = "string" -> parsed.text
               [] parsed.kind = "object" ->
                    IF FieldText(parsed.message) # "" THEN FieldText(parsed.message)
                    ELSE IF FieldText(parsed.error) # "" THEN FieldText(parsed.error)
                    ELSE IF FieldText(parsed.hint) # "" THEN FieldText(parsed.hint)
                    ELSE rawBody
               [] OTHER -> "Supabase request failed"
  IN JsonError(IF failure.status >= 400 THEN failure.status ELSE 502, message)

\* app.onError
onError == JsonError(500, "Internal server error")

\* The fields a create sends to the backend (Absent: the field is not sent).
InsertPayload(v, body) ==
  [name |-> Trim(body.name),
   description |->
     CASE v = "d1" -> Absent
       [] v = "d1desc" -> IF IsString(body.description) THEN Trim(body.description) ELSE Null
       [] OTHER -> IF IsString(body.description) THEN Trim(body.description)
                   ELSE IF body.description = Null THEN Null
                   ELSE Absent]

\* The row a create inserts: the name-only table has no description column,
\* elsewhere a description that is not sent takes the column's default.
NewRow(v, body, id, createdAt) ==
  [id |-> id,
   name |-> InsertPayload(v, body).name,
   description |->
     IF v = "d1" THEN Absent
     ELSE IF InsertPayload(v, body).description = Absent THEN descriptionDefault
     ELSE InsertPayload(v, body).description,
   created_at |-> createdAt]


\* ------------------------------------------------------------------ handlers: results

Record(status, v, row) ==
  Response(status, "record", "", <<IF v = "d1" THEN normalizeProject(row) ELSE row>>)

\* `error ?? fallback` on a statement result of the embedded store
ErrorOr(failure, fallback) == IF failure.error.defined THEN failure.error.text ELSE fallback

\* What a handler answers when its backend call does not succeed.
\* d1desc has no try/catch: a throw reaches app.onError.
Failed(v, outcome, failure, what) ==
  CASE v = "supabase" /\ outcome = "error" -> respondWithSupabaseError(failure)
    [] v = "supabase" /\ outcome = "throw" -> JsonError(502, what)
    [] v = "d1" -> JsonError(500, what)
    [] v = "d1desc" /\ outcome = "error" -> JsonError(500, ErrorOr(failure, what))
    [] OTHER -> onError

\* A read (.all(), .first()) of the embedded store reports failure by throwing.
ReadFailed(v, outcome, failure, what) ==
  IF v = "d1desc" THEN onError ELSE Failed(v, outcome, failure, what)

\* projects.get('/')
ListResult(v, outcome, listing, failure) ==
  IF outcome = "ok"
  THEN Response(200, "list", "", IF v = "d1" THEN [i \in 1..Len(listing) |-> normalizeProject(listing[i])]
                                   ELSE listing)
  ELSE ReadFailed(v, outcome, failure, "Failed to load projects")

\* projects.get('/:id')
GetResult(v, outcome, rows, failure) ==
  IF outcome = "ok"
  THEN IF rows = <<>> THEN JsonError(404, "Project not found") ELSE Record(200, v, rows[1])
  ELSE ReadFailed(v, outcome, failure, "Failed to load project")

InsertResultGoesOn(v, outcome, row, failure) ==
  IF v = "supabase" /\ outcome = "ok" THEN Done(Record(201, v, row)) ELSE Pass

\* projects.post('/'), after the insert
InsertResult(v, outcome, row, failure) ==
  IF outcome = "ok"
  THEN IF v = "supabase" THEN Done(Record(201, v, row)) ELSE Pass
  ELSE Done(Failed(v, outcome, failure, "Failed to create project"))

\* projects.post('/'), after the read-back of the inserted row
CreateReadBackResult(v, outcome, rows, failure) ==
  IF outcome = "ok"
  THEN IF rows = <<>>
       THEN JsonError(500, "Failed to load created project")
       ELSE Record(201, v, rows[1])
  ELSE ReadFailed(v, outcome, failure, "Failed to create project")

\* The number of changed rows as the handler reads it from the result of
\* statement.run(): d1 reads result.meta.changes, d1desc reads changes at the
\* top level of the result, which is undefined (!changes holds, as for 0)
\* when the result carries it under meta only.
ChangesRead(v, atTop, rows) == IF v = "d1desc" /\ ~atTop THEN 0 ELSE Len(rows)

\* projects.patch('/:id'), after the update; rows are the rows it changed
\* (for the remote service, the records it returns)
UpdateWriteResult(v, atTop, outcome, rows, failure) ==
  IF outcome = "ok"
  THEN IF v = "supabase"
       THEN IF rows = <<>> THEN Done(JsonError(404, "Project not found"))
            ELSE Done(Record(200, v, rows[1]))
       ELSE IF ChangesRead(v, atTop, rows) = 0
            THEN Done(JsonError(404, "Project not found"))
            ELSE Pass
  ELSE Done(Failed(v, outcome, failure, "Failed to update project"))

\* projects.patch('/:id'), after the read-back of the updated row
UpdateReadBackResult(v, outcome, rows, failure) ==
  IF outcome = "ok"
  THEN IF rows = <<>>
       THEN IF v = "d1desc" THEN Response(200, "null", "", <<>>)
            ELSE JsonError(404, "Project not found")
       ELSE Record(200, v, rows[1])
  ELSE ReadFailed(v, outcome, failure, "Failed to update project")

\* projects.delete('/:id'); rows are the rows it deleted (for the remote
\* service, the records it returns)
DeleteResult(v, atTop, outcome, rows, failure) ==
  IF outcome = "ok"
  THEN IF (IF v = "supabase" THEN Len(rows) ELSE ChangesRead(v, atTop, rows)) = 0
       THEN JsonError(404, "Project not found")
       ELSE Response(200, "ok", "", <<>>)
  ELSE Failed(v, outcome, failure, "Failed to delete project")


\* ------------------------------------------------------------------ the proxies

parsePositiveInt(value, fallback) ==
  IF value = Absent \/ value = <<>>
  THEN fallback
  ELSE IF ParseInt(value).nan \/ ParseInt(value).val <= 0
  THEN fallback
  ELSE ParseInt(value).val

\* A value of the upstream payload: a finite number, a string, or anything
\* else (undefined, null, a boolean, an object, a number that is not finite).
NoValue == [kind |-> "other", val |-> 0, text |-> <<>>]
Num(n) == [NoValue EXCEPT !.kind = "number", !.val = n]
Str(text) == [NoValue EXCEPT !.kind = "string", !.text = text]

coerceNumber(value, fallback) ==
  IF value.kind = "number" THEN value.val
  ELSE IF value.kind = "string" /\ ~ParseInt(value.text).nan THEN ParseInt(value.text).val
  ELSE fallback

coerceString(value) == IF value.kind = "string" THEN value.text ELSE <<>>

\* 'gpt-4o-mini'
DefaultModel == <<"g", "p", "t", "-", "4", "o", "-", "m", "i", "n", "i">>

AiStartNoTrim(configured, request) ==
  IF ~configured
  THEN Done(JsonError(500, "AI integration not configured"))
  ELSE IF request.body.kind # "object"
  THEN Done(JsonError(400, "Invalid JSON payload"))
  ELSE IF ~IsString(request.body.prompt) \/ Len(request.body.prompt) = 0
  THEN Done(JsonError(400, "Prompt is required"))
  ELSE Pass

\* app.post('/ai/complete') up to the upstream call
AiStart(configured, request) ==
  IF ~configured
  THEN Done(JsonError(500, "AI integration not configured"))
  ELSE IF request.body.kind # "object"
  THEN Done(JsonError(400, "Invalid JSON payload"))
  ELSE IF ~IsString(request.body.prompt) \/ Len(Trim(request.body.prompt)) = 0
  THEN Done(JsonError(400, "Prompt is required"))
  ELSE Pass

\* app.get('/media/pexels') up to the upstream call
PexelsStart(configured, request) ==
  IF ~configured
  THEN Done(JsonError(500, "Pexels integration not configured"))
  ELSE IF request.query.query = Absent \/ Len(Trim(request.query.query)) = 0
  THEN Done(JsonError(400, "query required"))
  ELSE Pass

\* The handler of a request up to its first backend or upstream call.
Start(v, configured, openai, pexels, request) ==
  CASE Route(request) = "ai" -> AiStart(openai, request)
    [] Route(request) = "pexels" -> PexelsStart(pexels, request)
    [] OTHER -> HandlerStart(v, configured, request)

\* What the handler sends with that call.
UpstreamRequest(v, request) ==
  CASE Route(request) = "create" ->
         [NoSent EXCEPT !.called = TRUE,
                        !.name = InsertPayload(v, request.body).name,
                        !.description = InsertPayload(v, request.body).description]
    [] Route(request) = "update" ->
         [NoSent EXCEPT !.called = TRUE,
                        !.name = PatchUpdates(v, request.body).updates.name,
                        !.description = PatchUpdates(v, request.body).updates.description]
    [] Route(request) = "ai" ->
         [NoSent EXCEPT !.called = TRUE,
                        !.model = IF IsString(request.body.model)
                                     /\ Len(Trim(request.body.model)) > 0
                                  THEN request.body.model ELSE DefaultModel,
                        !.prompt = request.body.prompt]
    [] Route(request) = "pexels" ->
         [NoSent EXCEPT !.called = TRUE,
                        !.query = Trim(request.query.query),
                        !.page = parsePositiveInt(request.query.page, 1),
                        !.per_page = parsePositiveInt(request.query.per_page, 10)]
    [] OTHER -> [NoSent EXCEPT !.called = TRUE]

\* Bodies of a successful completion response: a choice with text content,
\* no choice, a content whose toString is not callable.
AiPayloads ==
  {[kind |-> "text", content |-> <<" ", "t">>],
   [kind |-> "none", content |-> <<>>],
   [kind |-> "untextable", content |-> <<>>]}

\* app.post('/ai/complete') from the upstream's answer on
AiResult(outcome, payload) ==
  IF outcome # "ok"
  THEN JsonError(502, "AI request failed")
  ELSE IF payload.kind = "untextable"
  THEN onError
  ELSE Response(200, "text", "", <<Trim(payload.content)>>)

\* An element of payload.photos: kind is "null" (null: reading record.src
\* throws) or "record"; a src that is missing or null reads as {}.
NoSrc == [original |-> NoValue, large |-> NoValue, medium |-> NoValue, small |-> NoValue]
NullPhoto == [kind |-> "null", id |-> NoValue, photographer |-> NoValue, url |-> NoValue,
              src |-> NoSrc]
Photo(id, photographer, url, src) ==
  [kind |-> "record", id |-> id, photographer |-> photographer, url |-> url, src |-> src]

\* photos.map((photo) => ...)
NormalizedPhoto(record) ==
  [id |-> coerceNumber(record.id, 0),
   photographer |-> coerceString(record.photographer),
   url |-> coerceString(record.url),
   src |-> [original |-> coerceString(record.src.original),
            large |-> coerceString(record.src.large),
            medium |-> coerceString(record.src.medium),
            small |-> coerceString(record.src.small)]]

\* The body of a successful search response as parsed: kind is "null" (the
\* JSON null) or "object"; isArray tells whether photos is an array.
Payload(kind, isArray, photos, page, per_page, total_results) ==
  [kind |-> kind, isArray |-> isArray, photos |-> photos,
   page |-> page, per_page |-> per_page, total_results |-> total_results]

\* Bodies of a successful search response: the JSON null, an object without
\* any of the fields, an object with a photo and numbers, an object whose
\* paging fields are strings and whose photo has no field, an object whose
\* photo is null.
PexelsPayloads ==
  {Payload("null", FALSE, <<>>, NoValue, NoValue, NoValue),
   Payload("object", FALSE, <<>>, NoValue, NoValue, NoValue),
   Payload("object", TRUE,
           <<Photo(Num(7), Str(<<"p">>), Str(<<"u">>),
                   [original |-> Str(<<"o">>), large |-> Str(<<"l">>),
                    medium |-> Str(<<"m">>), small |-> Str(<<"s">>)])>>,
           Num(2), Num(1), Num(57)),
   Payload("object", TRUE, <<Photo(Str(<<"7">>), NoValue, Num(1), NoSrc)>>,
           Str(<<"4">>), Str(<<"2", "x">>), Str(<<"a">>)),
   Payload("object", TRUE, <<NullPhoto>>, Num(2), Num(1), NoValue)}

\* app.get('/media/pexels') from the upstream's answer on
PexelsResult(outcome, failure, payload, sent) ==
  CASE outcome = "throw" -> JsonError(502, "Failed to reach Pexels API")
    [] outcome = "error" ->
         JsonError(502, IF failure.body # "" THEN failure.body
                        ELSE "Pexels request failed (" \o ToString(failure.status) \o ")")
    [] outcome = "parse" -> JsonError(502, "Failed to parse Pexels response")
    [] OTHER ->
         IF payload.kind = "null"
         THEN onError
         ELSE IF payload.isArray /\ \E i \in 1..Len(payload.photos) : payload.photos[i].kind = "null"
         THEN onError
         ELSE LET photos == IF payload.isArray
                            THEN [i \in 1..Len(payload.photos) |->
                                    NormalizedPhoto(payload.photos[i])]
                            ELSE <<>>
              IN Response(200, "photos", "",
                          <<[photos |-> photos,
                             page |-> coerceNumber(payload.page, sent.page),
                             per_page |-> coerceNumber(payload.per_page, sent.per_page),
                             total_results |->
                               coerceNumber(payload.total_results, Len(photos))]>>)


\* ------------------------------------------------------------------ inputs

\* ORIGIN settings: unset, one exact origin, an exact and a wildcard entry
\* with blanks, a wildcard entry with empty entries.
AllowLists ==
  {<<>>,
   <<"a", ".", "b">>,
   <<" ", "a", ".", "b", ",", "*", ".", "b">>,
   <<"*", ".", "b", ",", ",">>}

DefaultAllowList == <<" ", "a", ".", "b", ",", "*", ".", "b">>

\* Origin headers: none, and three origins.
Origins == {<<>>, <<"a", ".", "b">>, <<"x", ".", "b">>, <<"a", "x", "b">>}

IdParams == {<<"1">>, <<"x">>, <<"1", "x">>}

NameInputs == {Absent, NonString, <<" ", "\t">>, <<" ", "a">>}
DescriptionInputs == {Absent, Null, <<"d", " ">>}

Body(kind, name, description) ==
  [NoBody EXCEPT !.kind = kind, !.name = name, !.description = description]

Bodies ==
  {Body("object", n, d) : n \in NameInputs, d \in DescriptionInputs}
  \cup {Body("badjson", Absent, Absent), Body("falsy", Absent, Absent)}

Request(method, path, id, body, origin) ==
  [method |-> method, path |-> path, id |-> id, body |-> body, origin |-> origin,
   query |-> NoQuery]

ValidBody == Body("object", <<" ", "a">>, <<"d", " ">>)
OtherBody == Body("object", <<"b">>, Absent)

\* The requests of the concurrent client: a create, an update and a delete.
OtherRequests ==
  {Request("POST", "projects", <<>>, OtherBody, <<>>),
   Request("PATCH", "project", <<"1">>, OtherBody, <<>>),
   Request("DELETE", "project", <<"1">>, NoBody, <<>>)}

\* The project requests in all their bodies and ids, sent without Origin.
CrudRequests(r) ==
  IF r = 1
  THEN {Request("GET", "projects", <<>>, NoBody, <<>>)}
       \cup {Request("POST", "projects", <<>>, b, <<>>) : b \in Bodies}
       \cup {Request("PATCH", "project", <<"1">>, b, <<>>) : b \in Bodies}
       \cup {Request("PATCH", "project", i, ValidBody, <<>>) : i \in IdParams \ {<<"1">>}}
       \cup {Request(m, "project", i, NoBody, <<>>) : m \in {"GET", "DELETE"}, i \in IdParams}
  ELSE OtherRequests

\* Every route under every Origin header.
GuardRequests(r) ==
  IF r = 1
  THEN {Request(m, "projects", <<>>, NoBody, o) : m \in {"GET", "OPTIONS"}, o \in Origins}
       \cup {Request("POST", "projects", <<>>, ValidBody, o) : o \in Origins}
       \cup {Request("PATCH", "project", <<"1">>, ValidBody, o) : o \in Origins}
       \cup {Request(m, "project", <<"1">>, NoBody, o) :
               m \in {"GET", "DELETE", "OPTIONS"}, o \in Origins}
       \cup {Request(m, p, <<>>, NoBody, o) :
               m \in {"GET", "OPTIONS"}, p \in {"health", "other"}, o \in Origins}
  ELSE {Request("POST", "projects", <<>>, OtherBody, <<>>)}

PromptInputs == {Absent, NonString, <<" ">>, <<" ", "p">>}
ModelInputs == {Absent, <<"m">>}

\* Values of page and per_page: missing, empty, negative, zero, not a
\* number, a positive integer, a positive integer followed by a letter.
PagingInputs == {Absent, <<>>, <<"-", "5">>, <<"0">>, <<"a", "b", "c">>, <<"3">>, <<"2", "x">>}
QueryInputs == {Absent, <<" ">>, <<" ", "q">>}

AiRequest(body) == Request("POST", "ai", <<>>, body, <<>>)

PexelsRequest(query, page, per_page) ==
  [Request("GET", "pexels", <<>>, NoBody, <<>>)
     EXCEPT !.query = [query |-> query, page |-> page, per_page |-> per_page]]

\* The requests to the two proxies.
ProxyRequests(r) ==
  IF r = 1
  THEN {AiRequest([Body("object", Absent, Absent) EXCEPT !.prompt = p, !.model = m]) :
          p \in PromptInputs, m \in ModelInputs}
       \cup {AiRequest(Body(k, Absent, Absent)) : k \in {"badjson", "falsy"}}
       \cup {PexelsRequest(q, <<"3">>, Absent) : q \in QueryInputs}
       \cup {PexelsRequest(<<" ", "q">>, pg, pp) : pg \in PagingInputs, pp \in PagingInputs}
  ELSE {AiRequest([Body("object", Absent, Absent) EXCEPT !.prompt = <<"p">>]),
        PexelsRequest(<<"q">>, Absent, Absent)}

\* ------------------------------------------------------------------ actions

TypeInit ==
  /\ store = {}
  /\ nextId = 1
  /\ lastRowid = 0
  /\ clock = 0
  /\ pc = [r \in Slots |-> "idle"]
  /\ req = [r \in Slots |-> NoReq]
  /\ loc = [r \in Slots |-> NoLoc]
  /\ resp = [r \in Slots |-> NoResp]

\* The embedded variants always supply the description column or have
\* none: its default plays no part there. Where the statement result carries
\* changes is read by the embedded variant with description only.
Init ==
  /\ variant \in Variants
  /\ originConfig = DefaultAllowList
  /\ supabaseConfigured \in BOOLEAN
  /\ (variant # "supabase" => supabaseConfigured)
  /\ descriptionDefault \in DescriptionDefaults
  /\ (variant # "supabase" \/ ~supabaseConfigured => descriptionDefault = Null)
  /\ changesAtTop \in BOOLEAN
  /\ (variant # "d1desc" => ~changesAtTop)
  /\ openaiKey = TRUE /\ pexelsKey = TRUE
  /\ TypeInit

GuardInit ==
  /\ variant \in Variants
  /\ originConfig \in AllowLists
  /\ supabaseConfigured = TRUE
  /\ descriptionDefault = Null
  /\ changesAtTop = (variant = "d1desc")
  /\ openaiKey = TRUE /\ pexelsKey = TRUE
  /\ TypeInit

ProxyInit ==
  /\ variant \in Variants
  /\ originConfig = DefaultAllowList
  /\ supabaseConfigured = TRUE
  /\ descriptionDefault = Null
  /\ changesAtTop = FALSE
  /\ openaiKey \in BOOLEAN /\ pexelsKey \in BOOLEAN
  /\ TypeInit

\* The handler returns its response: the guard stamps its headers on it.
Finish(r, response) ==
  /\ pc' = [pc EXCEPT ![r] = "done"]
  /\ resp' = [resp EXCEPT ![r] = StampHeaders(response, req[r], originConfig)]

\* Two requests that delete the same project.
SameDelete(r, q) ==
  /\ r # q
  /\ req[r].method = "DELETE" /\ req[q].method = "DELETE"
  /\ Route(req[r]) = "delete" /\ Route(req[q]) = "delete"
  /\ ~ParseInt(req[r].id).nan /\ ~ParseInt(req[q].id).nan
  /\ ParseInt(req[r].id).val = ParseInt(req[q].id).val

\* The response of a delete may still be on its way to the client while a
\* concurrent delete of the same project makes its backend call.
Held(q) == \E r \in Slots : pc[r] = "call" /\ SameDelete(r, q)

\* Otherwise a response is sent as soon as its handler returns: while one
\* is ready, sending it is the only step (the response is never read again
\* by the program, so this leaves out no behaviour of the store).
NoneDone == \A q \in Slots : pc[q] = "done" => Held(q)

\* Number of inserts that requests in flight may still make.
PendingInserts ==
  Cardinality({r \in Slots : pc[r] = "call" /\ Route(req[r]) = "create"})

\* A request arrives: the guard, the routing and the handler up to its first
\* backend call.
Receive(r, request) ==
  /\ pc[r] = "idle"
  /\ NoneDone
  /\ Route(request) = "create" => nextId + PendingInserts <= MaxId
  /\ req' = [req EXCEPT ![r] = request]
  /\ LET guard == OriginGuard(request, originConfig)
         start == Start(variant, supabaseConfigured, openaiKey, pexelsKey, request)
     IN IF ~guard.next
        THEN /\ pc' = [pc EXCEPT ![r] = "done"]
             /\ resp' = [resp EXCEPT ![r] = guard.resp]
             /\ loc' = loc
        ELSE IF start.done
        THEN /\ pc' = [pc EXCEPT ![r] = "done"]
             /\ resp' = [resp EXCEPT ![r] = StampHeaders(start.resp, request, originConfig)]
             /\ loc' = loc
        ELSE /\ pc' = [pc EXCEPT ![r] = "call"]
             /\ resp' = resp
             /\ loc' = [loc EXCEPT ![r] = [NoLoc EXCEPT !.createdAt = clock,
                                                        !.sent = UpstreamRequest(variant, request)]]
  /\ UNCHANGED <<env, db, clock>>

\* projects.get('/')
ListCall(r) ==
  /\ pc[r] = "call" /\ Route(req[r]) = "list"
  /\ NoneDone
  /\ \E outcome \in StepOutcomes(variant), failure \in Failures(variant),
        listing \in Listings(store) :
       /\ Finish(r, ListResult(variant, outcome, listing, failure))
       /\ loc' = [loc EXCEPT ![r] = Stepped(@, variant, outcome, failure)]
  /\ UNCHANGED <<env, db, clock, req>>

\* projects.get('/:id')
GetCall(r) ==
  /\ pc[r] = "call" /\ Route(req[r]) = "get"
  /\ NoneDone
  /\ \E outcome \in StepOutcomes(variant), failure \in Failures(variant) :
       /\ Finish(r, GetResult(variant, outcome, Select(store, ParseInt(req[r].id).val), failure))
       /\ loc' = [loc EXCEPT ![r] = Stepped(@, variant, outcome, failure)]
  /\ UNCHANGED <<env, db, clock, req>>

\* projects.post('/'): the insert (for the remote service, the one call that
\* inserts and returns the row)
CreateInsert(r) ==
  /\ pc[r] = "call" /\ Route(req[r]) = "create"
  /\ NoneDone
  /\ \E outcome \in StepOutcomes(variant), failure \in Failures(variant) :
       LET row == NewRow(variant, req[r].body, nextId, loc[r].createdAt)
           result == InsertResult(variant, outcome, row, failure)
       IN /\ IF Applied(outcome)
             THEN /\ store' = store \cup {row}
                  /\ nextId' = nextId + 1
                  /\ lastRowid' = IF variant = "supabase" THEN lastRowid ELSE nextId
             ELSE UNCHANGED db
          /\ loc' = [loc EXCEPT ![r] =
                       [Stepped(@, variant, outcome, failure)
                          EXCEPT !.rowid = IF Applied(outcome) THEN nextId ELSE @]]
          /\ IF result.done
             THEN Finish(r, result.resp)
             ELSE pc' = [pc EXCEPT ![r] = "readback"] /\ resp' = resp
  /\ UNCHANGED <<env, clock, req>>

\* projects.post('/'): the read-back of the created row. d1desc asks the
\* connection for last_insert_rowid(), d1 uses the insert's own last_row_id.
CreateReadBack(r) ==
  /\ pc[r] = "readback" /\ Route(req[r]) = "create"
  /\ NoneDone
  /\ \E outcome \in StepOutcomes(variant), failure \in Failures(variant) :
       LET id == IF variant = "d1desc" THEN lastRowid ELSE loc[r].rowid
       IN /\ Finish(r, CreateReadBackResult(variant, outcome, Select(store, id), failure))
          /\ loc' = [loc EXCEPT ![r] = Stepped(@, variant, outcome, failure)]
  /\ UNCHANGED <<env, db, clock, req>>

\* projects.patch('/:id'): the update
UpdateWrite(r) ==
  /\ pc[r] = "call" /\ Route(req[r]) = "update"
  /\ NoneDone
  /\ \E outcome \in StepOutcomes(variant), failure \in Failures(variant) :
       LET id == ParseInt(req[r].id).val
           updates == PatchUpdates(variant, req[r].body).updates
           after == UpdateRows(store, id, updates)
           result == UpdateWriteResult(variant, changesAtTop, outcome, Select(after, id), failure)
       IN /\ store' = IF Applied(outcome) THEN after ELSE store
          /\ loc' = [loc EXCEPT ![r] = Stepped(@, variant, outcome, failure)]
          /\ IF result.done
             THEN Finish(r, result.resp)
             ELSE pc' = [pc EXCEPT ![r] = "readback"] /\ resp' = resp
  /\ UNCHANGED <<env, nextId, lastRowid, clock, req>>

\* projects.patch('/:id'): the read-back of the updated row
UpdateReadBack(r) ==
  /\ pc[r] = "readback" /\ Route(req[r]) = "update"
  /\ NoneDone
  /\ \E outcome \in StepOutcomes(variant), failure \in Failures(variant) :
       /\ Finish(r, UpdateReadBackResult(variant, outcome,
                                         Select(store, ParseInt(req[r].id).val), failure))
       /\ loc' = [loc EXCEPT ![r] = Stepped(@, variant, outcome, failure)]
  /\ UNCHANGED <<env, db, clock, req>>

\* projects.delete('/:id')
DeleteCall(r) ==
  /\ pc[r] = "call" /\ Route(req[r]) = "delete"
  /\ NoneDone
  /\ \E outcome \in StepOutcomes(variant), failure \in Failures(variant) :
       LET id == ParseInt(req[r].id).val IN
       /\ store' = IF Applied(outcome) THEN DeleteRows(store, id) ELSE store
       /\ loc' = [loc EXCEPT ![r] = Stepped(@, variant, outcome, failure)]
       /\ Finish(r, DeleteResult(variant, changesAtTop, outcome, Select(store, id), failure))
  /\ UNCHANGED <<env, nextId, lastRowid, clock, req>>

\* app.post('/ai/complete'): the upstream's answer and the rest of the handler
AiCall(r) ==
  /\ pc[r] = "call" /\ Route(req[r]) = "ai"
  /\ NoneDone
  /\ \E outcome \in Outcomes, failure \in UpstreamFailures, payload \in AiPayloads :
       /\ Finish(r, AiResult(outcome, payload))
       /\ loc' = [loc EXCEPT ![r] = Stepped(@, "supabase", outcome, failure)]
  /\ UNCHANGED <<env, db, clock, req>>

\* app.get('/media/pexels'): the upstream's answer and the rest of the handler
PexelsCall(r) ==
  /\ pc[r] = "call" /\ Route(req[r]) = "pexels"
  /\ NoneDone
  /\ \E outcome \in Outcomes, failure \in UpstreamFailures, payload \in PexelsPayloads :
       /\ Finish(r, PexelsResult(outcome, failure, payload, loc[r].sent))
       /\ loc' = [loc EXCEPT ![r] = Stepped(@, "supabase", outcome, failure)]
  /\ UNCHANGED <<env, db, clock, req>>

\* The response is sent; the slot takes the next request.
Deliver(r) ==
  /\ pc[r] = "done"
  /\ pc' = [pc EXCEPT ![r] = "idle"]
  /\ req' = [req EXCEPT ![r] = NoReq]
  /\ loc' = [loc EXCEPT ![r] = NoLoc]
  /\ resp' = [resp EXCEPT ![r] = NoResp]
  /\ UNCHANGED <<env, db, clock>>

\* A millisecond passes.
Tick ==
  /\ NoneDone
  /\ clock < MaxClock
  /\ clock' = clock + 1
  /\ UNCHANGED <<env, db, pc, req, loc, resp>>

Backend(r) ==
  \/ ListCall(r)
  \/ GetCall(r)
  \/ CreateInsert(r)
  \/ CreateReadBack(r)
  \/ UpdateWrite(r)
  \/ UpdateReadBack(r)
  \/ DeleteCall(r)

Next ==
  \/ \E r \in Slots : \E request \in CrudRequests(r) : Receive(r, request)
  \/ \E r \in Slots : Backend(r)
  \/ \E r \in Slots : Deliver(r)
  \/ Tick

GuardNext ==
  \/ \E r \in Slots : \E request \in GuardRequests(r) : Receive(r, request)
  \/ \E r \in Slots : Backend(r)
  \/ \E r \in Slots : Deliver(r)
  \/ Tick

\* Every text of at most n characters of an alphabet.
TextsUpTo(alphabet, n) == UNION {[1..k -> alphabet] : k \in 0..n}

\* The matching study: every ORIGIN setting made of a letter, the dot, the
\* star, the comma, the blank and the tab, against every Origin header made
\* of two letters and the dot (a header value holds no line terminator).
MatchLists == TextsUpTo({"a", ".", "*", ",", " ", "\t"}, MaxListLen)
MatchOrigins == TextsUpTo({"a", "x", "."}, MaxOriginLen)

MatchRequests ==
  {Request("GET", "health", <<>>, NoBody, o) : o \in MatchOrigins}
  \cup {Request("OPTIONS", "projects", <<>>, NoBody, o) : o \in MatchOrigins}

MatchInit ==
  /\ variant = "d1"
  /\ originConfig \in MatchLists
  /\ supabaseConfigured = TRUE
  /\ descriptionDefault = Null
  /\ changesAtTop = FALSE
  /\ openaiKey = TRUE /\ pexelsKey = TRUE
  /\ TypeInit

MatchNext ==
  \/ \E request \in MatchRequests : Receive(1, request)
  \/ Deliver(1)

MatchSpec == MatchInit /\ [][MatchNext]_vars

\* The two proxies alone.
ProxyNext ==
  \/ \E r \in Slots : \E request \in ProxyRequests(r) : Receive(r, request)
  \/ \E r \in Slots : AiCall(r)
  \/ \E r \in Slots : PexelsCall(r)
  \/ \E r \in Slots : Deliver(r)

Spec == Init /\ [][Next]_vars

\* Every handler side by side: the project requests and, from the client
\* under study, a completion and a media search.
FlowRequests(r) ==
  CrudRequests(r)
  \cup (IF r = 1
        THEN {AiRequest([Body("object", Absent, Absent) EXCEPT !.prompt = <<" ", "p">>]),
              PexelsRequest(<<" ", "q">>, <<"3">>, Absent)}
        ELSE {})

FlowNext ==
  \/ \E r \in Slots : \E request \in FlowRequests(r) : Receive(r, request)
  \/ \E r \in Slots : Backend(r)
  \/ \E r \in Slots : AiCall(r)
  \/ \E r \in Slots : PexelsCall(r)
  \/ \E r \in Slots : Deliver(r)
  \/ Tick

FlowSpec == Init /\ [][FlowNext]_vars

ProxySpec == ProxyInit /\ [][ProxyNext]_vars

GuardSpec == GuardInit /\ [][GuardNext]_vars


\* ------------------------------------------------------------------ claims: origin guard

\* The allow-list as the specification describes it: the entries between
\* commas, trimmed, the empty ones left out.
RECURSIVE SeqRange(_)
SeqRange(xs) == IF xs = <<>> THEN {} ELSE {Head(xs)} \cup SeqRange(Tail(xs))

AllowEntries(raw) == {Trim(e) : e \in SeqRange(Split(raw, ","))} \ {<<>>}

\* An entry accepts an origin when the origin is the entry with each "*"
\* replaced by some text, every other character taken literally.
RECURSIVE WildcardAccepts(_, _)
WildcardAccepts(entry, origin) ==
  IF entry = <<>> THEN origin = <<>>
  ELSE IF Head(entry) = "*"
  THEN \E k \in 0..Len(origin) : WildcardAccepts(Tail(entry), SubSeq(origin, k + 1, Len(origin)))
  ELSE origin # <<>> /\ Head(origin) = Head(entry) /\ WildcardAccepts(Tail(entry), Tail(origin))

OriginAccepted(origin, raw) == \E e \in AllowEntries(raw) : WildcardAccepts(e, origin)

\* C1: a request whose non-empty Origin no entry of the allow-list accepts is
\* answered 403 {error: "Origin not allowed"} whatever its method, at once
\* (no handler runs, no backend call is left pending) and the project store
\* is as it was.
C1_OriginRejected ==
  [][\A r \in Slots :
       (/\ pc[r] = "idle" /\ pc'[r] # "idle"
        /\ req'[r].origin # <<>>
        /\ ~OriginAccepted(req'[r].origin, originConfig))
       => (/\ pc'[r] = "done"
           /\ resp'[r] = JsonError(403, "Origin not allowed")
           /\ store' = store /\ nextId' = nextId)]_vars

\* A DELETE of a stored project was refused for its origin.
C1_Witness ==
  \E r \in Slots :
    /\ pc[r] = "done" /\ resp[r].status = 403
    /\ req[r].method = "DELETE"
    /\ Select(store, ParseInt(req[r].id).val) # <<>>

\* C2: when an entry of the allow-list accepts the request's Origin, exactly
\* or by wildcard, the response (preflight or handler response) carries
\* Access-Control-Allow-Origin equal to the request's origin, and Vary: Origin.
C2_OriginEchoed ==
  \A r \in Slots :
    (pc[r] = "done" /\ req[r].origin # <<>> /\ OriginAccepted(req[r].origin, originConfig))
    => (resp[r].headers.acao = req[r].origin /\ resp[r].headers.vary = "Origin")

\* A create sent from an origin that only the wildcard entry accepts was
\* answered 201.
C2_Witness ==
  \E r \in Slots :
    /\ pc[r] = "done" /\ resp[r].status = 201
    /\ req[r].origin = <<"x", ".", "b">>
    /\ resp[r].headers.acao = <<"x", ".", "b">>


\* ------------------------------------------------------------------ claims: project store

Blank(text) == \A i \in 1..Len(text) : text[i] \in Whitespace

\* C3: no stored project ever has an empty or whitespace-only name, and a
\* stored name is either the name the row had before or the trimmed form of
\* the name submitted by the request that writes it.
C3_NameInvariant ==
  [][\A p \in store' :
       /\ ~Blank(p.name)
       /\ \/ \E q \in store : q.id = p.id /\ q.name = p.name
          \/ \E r \in Slots :
               /\ pc[r] = "call" /\ pc'[r] # "call"
               /\ Route(req[r]) \in {"create", "update"}
               /\ IsString(req[r].body.name)
               /\ p.name = Trim(req[r].body.name)]_vars

\* A project created by the other client was renamed by a PATCH whose name
\* had a leading blank.
C3_Witness ==
  \E r \in Slots :
    /\ pc[r] = "done" /\ Route(req[r]) = "update" /\ resp[r].status = 200
    /\ req[r].body.name = <<" ", "a">>
    /\ \E p \in store : p.id = 1 /\ p.name = <<"a">>
    /\ \E p \in store : p.id = 2 /\ p.name = <<"b">>

\* C4: after a create answered 201, the project fetched by the returned id
\* has the name and description of the created record, and every list shows
\* a project before all projects created earlier (ids are assigned in
\* creation order); the lists looked at are those answered while no other
\* request is in flight.
C4_RoundTrip ==
  \A r \in Slots :
    /\ (pc[r] = "done" /\ Route(req[r]) = "create" /\ resp[r].status = 201)
       => LET fetched == Select(store, resp[r].items[1].id) IN
          /\ fetched # <<>>
          /\ fetched[1].name = resp[r].items[1].name
          /\ fetched[1].description = resp[r].items[1].description
    /\ (/\ pc[r] = "done" /\ Route(req[r]) = "list" /\ resp[r].status = 200
        /\ \A q \in Slots \ {r} : pc[q] = "idle")
       => \A i, j \in 1..Len(resp[r].items) :
            i < j => resp[r].items[i].id > resp[r].items[j].id

\* C5: a create answered 201 returns the row this request inserted: the id
\* its insert was given and its created_at.
C5_CreateReturnsOwnRecord ==
  \A r \in Slots :
    (pc[r] = "done" /\ Route(req[r]) = "create" /\ resp[r].status = 201)
    => /\ resp[r].kind = "record"
       /\ resp[r].items[1].id = loc[r].rowid
       /\ resp[r].items[1].created_at = loc[r].createdAt

\* C6: a delete whose backend call is answered yields 404 "Project not found"
\* and leaves the store unchanged when the id is not stored; when it is
\* stored it yields 200 {ok: true} and removes that row and no other, so
\* that the id is absent for the delete that follows. A backend call that
\* fails or throws leaves the store unchanged; one whose answer cannot be
\* parsed has removed the row.
C6_Delete ==
  [][\A r \in Slots :
       (pc[r] = "call" /\ Route(req[r]) = "delete" /\ pc'[r] = "done")
       => LET id == ParseInt(req[r].id).val
              present == Select(store, id) # <<>>
          IN IF loc'[r].outcome \in {"error", "throw"}
             THEN store' = store
             ELSE IF loc'[r].outcome = "parse"
             THEN store' = {p \in store : p.id # id}
             ELSE IF present
             THEN /\ resp'[r].status = 200 /\ resp'[r].kind = "ok"
                  /\ store' = {p \in store : p.id # id}
                  /\ Select(store', id) = <<>>
             ELSE /\ resp'[r].status = 404 /\ resp'[r].error = "Project not found"
                  /\ store' = store]_vars

\* C7: a create whose body is not valid JSON, or whose name is missing, not
\* a string or whitespace-only, is answered 400 whatever its description,
\* the variant, the backend configuration and the store.
C7_CreateValidation ==
  \A r \in Slots :
    (/\ pc[r] # "idle" /\ Route(req[r]) = "create"
     /\ \/ req[r].body.kind # "object"
        \/ ~IsString(req[r].body.name)
        \/ Blank(req[r].body.name))
    => (pc[r] = "done" /\ resp[r].status = 400 /\ resp[r].kind = "error")

\* A create with a name of a blank and a tab and a description was answered 400
\* by the remote variant without its configuration.
C7_Witness ==
  \E r \in Slots :
    /\ pc[r] = "done" /\ Route(req[r]) = "create"
    /\ req[r].body.name = <<" ", "\t">> /\ req[r].body.description = <<"d", " ">>
    /\ variant = "supabase" /\ ~supabaseConfigured
    /\ resp[r].status = 400


EmptyObject(body) ==
  body.kind = "object" /\ body.name = Absent /\ body.description = Absent

\* C8: a PATCH on a numeric id whose body is a JSON object with neither
\* name nor description is answered 400 "No fields provided to update" in
\* every variant, without a backend call (the store is as it was).
C8_NoFieldsEveryVariant ==
  \A r \in Slots :
    (/\ pc[r] # "idle" /\ Route(req[r]) = "update"
     /\ ~ParseInt(req[r].id).nan /\ EmptyObject(req[r].body))
    => (/\ pc[r] = "done" /\ resp[r].status = 400
        /\ resp[r].error = "No fields provided to update"
        /\ ~loc[r].sent.called)

\* C9: a PATCH answered 200 carries the project record with the addressed
\* id, never a missing or null record.
C9_UpdateOutcome ==
  \A r \in Slots :
    (pc[r] = "done" /\ Route(req[r]) = "update" /\ resp[r].status = 200)
    => (/\ resp[r].kind = "record"
        /\ Len(resp[r].items) = 1
        /\ resp[r].items[1].id = ParseInt(req[r].id).val)

\* The row a PATCH leaves, field by field, as C10 states it.
PatchedAsClaimed(p, body) ==
  [p EXCEPT !.name = IF IsString(body.name) THEN Trim(body.name) ELSE @,
            !.description = IF IsString(body.description) THEN Trim(body.description)
                            ELSE IF body.description = Null THEN Null
                            ELSE @]

\* The update step of request r succeeded.
UpdateSucceeded(r) ==
  /\ pc[r] = "call" /\ Route(req[r]) = "update"
  /\ \/ pc'[r] = "readback"
     \/ pc'[r] = "done" /\ resp'[r].status = 200

\* A stored row with "no description" read as a null description.
NullIfAbsent(p) == [p EXCEPT !.description = IF @ = Absent THEN Null ELSE @]

\* C10: a successful PATCH sets, on the addressed project only, exactly the
\* fields of name and description the body supplies (name trimmed,
\* description trimmed or null); a field not supplied keeps its value, id
\* and created_at stay, every other project is unchanged.
C10_PatchFrameEveryVariant ==
  [][\A r \in Slots :
       UpdateSucceeded(r)
       => {NullIfAbsent(p) : p \in store'}
          = {NullIfAbsent(IF p.id = ParseInt(req[r].id).val
                          THEN PatchedAsClaimed(p, req[r].body) ELSE p) : p \in store}]_vars


\* ------------------------------------------------------------------ claims: reads

\* C11: a list whose backend call is answered yields 200 with exactly the
\* stored projects, each once and none missing, in an order that is
\* non-increasing in created_at; for an empty store, 200 with the empty list.
C11_List ==
  [][\A r \in Slots :
       (/\ pc[r] = "call" /\ Route(req[r]) = "list"
        /\ pc'[r] = "done" /\ loc'[r].outcome = "ok")
       => LET items == resp'[r].items IN
          /\ resp'[r].status = 200 /\ resp'[r].kind = "list"
          /\ Len(items) = Cardinality(store)
          /\ {items[i] : i \in 1..Len(items)} = store
          /\ \A i, j \in 1..Len(items) : i < j => items[i].created_at >= items[j].created_at
          /\ store' = store]_vars

\* A list of two projects created at different times was answered, the
\* later one first.
C11_Witness ==
  \E r \in Slots :
    /\ pc[r] = "done" /\ Route(req[r]) = "list" /\ resp[r].status = 200
    /\ Len(resp[r].items) = 2
    /\ resp[r].items[1].created_at > resp[r].items[2].created_at
    /\ resp[r].items[1].id = 2

\* A decimal integer string.
IsDecimal(text) == text # <<>> /\ \A i \in 1..Len(text) : IsDigit(text[i])

\* C12: for get, update and delete by id, an id segment that is not a
\* decimal integer string is answered 400 "Invalid project id" without a
\* backend call; a get of a numeric id that is answered by the backend
\* yields 404 when the id is not stored and 200 with that record when it is.
C12_IdValidation ==
  \A r \in Slots :
    /\ (/\ pc[r] # "idle" /\ Route(req[r]) \in {"get", "update", "delete"}
        /\ ~IsDecimal(req[r].id))
       => (/\ pc[r] = "done"
           /\ resp[r].status = 400 /\ resp[r].error = "Invalid project id"
           /\ ~loc[r].sent.called)
    /\ (/\ pc[r] = "done" /\ Route(req[r]) = "get"
        /\ IsDecimal(req[r].id) /\ loc[r].outcome = "ok")
       => IF Select(store, ParseInt(req[r].id).val) = <<>>
          THEN resp[r].status = 404
          ELSE /\ resp[r].status = 200 /\ resp[r].kind = "record"
               /\ resp[r].items = Select(store, ParseInt(req[r].id).val)

\* ------------------------------------------------------------------ claims: create

\* The description a create sends, as C13 states it: trimmed text, null,
\* or nothing when the body has none.
DescriptionAsClaimed(body) ==
  IF IsString(body.description) THEN Trim(body.description)
  ELSE IF body.description = Null THEN Null
  ELSE Absent

\* C13: a create sends the description trimmed when it is a string, null
\* when it is null, and does not send it when it is omitted, so that the
\* backend's default applies.
C13_CreateDescriptionEveryVariant ==
  \A r \in Slots :
    (pc[r] = "call" /\ Route(req[r]) = "create")
    => loc[r].sent.description = DescriptionAsClaimed(req[r].body)

\* ------------------------------------------------------------------ claims: errors

\* The response without the headers the guard stamps on it.
Unstamped(response) == [response EXCEPT !.headers = NoHeaders]

\* C14: when a backend step of a project handler raises an exception (the
\* call throws, or its answer cannot be parsed), the handler itself answers
\* 500 or 502 with {error}: the response is never the one of the top-level
\* error fallback, which is what a request gets when the exception leaves
\* its handler.
C14_ExceptionContained ==
  \A r \in Slots :
    (pc[r] = "done" /\ loc[r].outcome \in {"throw", "parse"})
    => (/\ resp[r].kind = "error"
        /\ resp[r].status \in {500, 502}
        /\ Unstamped(resp[r]) # onError)

\* C15: when the backend reports a failure for a project operation, the
\* response status is 500 or 502 and the body is {error: message}.
C15_BackendFailureStatus ==
  \A r \in Slots :
    (pc[r] = "done" /\ loc[r].outcome = "error")
    => (resp[r].status \in {500, 502} /\ resp[r].kind = "error")

\* C16: every response with a status of 400 or above has a body {error:
\* string}, and no response with a 2xx status has a null or {error} body.
C16_ErrorEnvelope ==
  \A r \in Slots :
    pc[r] = "done"
    => /\ resp[r].status >= 400 => resp[r].kind = "error"
       /\ resp[r].status \in 200..299 => resp[r].kind \notin {"null", "error"}

\* ------------------------------------------------------------------ claims: CORS

\* The request passes the guard: it has no Origin, or an entry accepts it.
PassesGuard(request, raw) == request.origin = <<>> \/ OriginAccepted(request.origin, raw)

\* C17: an OPTIONS request that passes the guard is answered at once with an
\* empty 204 that carries the allowed methods, the allowed headers and the
\* max-age, Access-Control-Allow-Origin (the request's origin) exactly when
\* an origin matched; no handler runs, whatever the path: no backend call
\* is started and the store is as it was.
C17_Preflight ==
  [][\A r \in Slots :
       (/\ pc[r] = "idle" /\ pc'[r] # "idle"
        /\ req'[r].method = "OPTIONS"
        /\ PassesGuard(req'[r], originConfig))
       => (/\ pc'[r] = "done"
           /\ resp'[r].status = 204 /\ resp'[r].kind = "empty"
           /\ resp'[r].headers.methods = "GET,POST,PATCH,DELETE,OPTIONS"
           /\ resp'[r].headers.headers = "Content-Type"
           /\ resp'[r].headers.maxAge = "86400"
           /\ resp'[r].headers.acao = req'[r].origin
           /\ loc'[r] = loc[r] /\ ~loc'[r].sent.called
           /\ store' = store)]_vars

\* A preflight for an unrouted path, from an origin that the wildcard entry
\* accepts, was answered 204 with that origin.
C17_Witness ==
  \E r \in Slots :
    /\ pc[r] = "done" /\ req[r].method = "OPTIONS" /\ req[r].path = "other"
    /\ req[r].origin = <<"x", ".", "b">>
    /\ resp[r].status = 204 /\ resp[r].headers.acao = <<"x", ".", "b">>

\* C18: a request other than OPTIONS that passes the guard reaches its
\* handler (it is answered by the handler, or its backend call is started),
\* and its response, whatever the status, carries the allowed methods, the
\* allowed headers and the max-age; without an Origin header it carries
\* these three and neither Access-Control-Allow-Origin nor Vary.
C18_CorsStamped ==
  [][\A r \in Slots :
       LET request == req'[r] IN
       /\ (/\ pc[r] = "idle" /\ pc'[r] # "idle"
           /\ request.method # "OPTIONS" /\ PassesGuard(request, originConfig))
          => LET start == Start(variant, supabaseConfigured, openaiKey, pexelsKey, request)
             IN IF start.done
                THEN pc'[r] = "done" /\ Unstamped(resp'[r]) = start.resp
                ELSE pc'[r] = "call" /\ loc'[r].sent.called
       /\ (/\ pc[r] # "done" /\ pc'[r] = "done"
           /\ request.method # "OPTIONS" /\ PassesGuard(request, originConfig))
          => (/\ resp'[r].headers.methods = "GET,POST,PATCH,DELETE,OPTIONS"
              /\ resp'[r].headers.headers = "Content-Type"
              /\ resp'[r].headers.maxAge = "86400"
              /\ request.origin = <<>>
                 => (resp'[r].headers.acao = <<>> /\ resp'[r].headers.vary = ""))]_vars

\* A request without Origin whose backend call threw was answered by the
\* top-level error fallback, with the three headers and no allowed origin.
C18_Witness ==
  \E r \in Slots :
    /\ pc[r] = "done" /\ req[r].origin = <<>> /\ req[r].method = "GET"
    /\ Unstamped(resp[r]) = onError
    /\ resp[r].headers.maxAge = "86400" /\ resp[r].headers.acao = <<>>

\* ------------------------------------------------------------------ claims: proxies

\* C19: with the API key configured, a completion request whose prompt is
\* missing, not a string or blank is answered 400 at once, the upstream not
\* called; a request with a valid prompt whose upstream call answers
\* non-2xx or throws is answered 502 {error: "AI request failed"}.
C19_CompletionErrors ==
  [][\A r \in Slots :
       /\ (/\ pc[r] = "idle" /\ pc'[r] # "idle"
           /\ Route(req'[r]) = "ai" /\ openaiKey
           /\ \/ req'[r].body.kind # "object"
              \/ ~IsString(req'[r].body.prompt)
              \/ Blank(req'[r].body.prompt))
          => (/\ pc'[r] = "done"
              /\ resp'[r].status = 400 /\ resp'[r].kind = "error"
              /\ ~loc'[r].sent.called)
       /\ (/\ pc[r] = "call" /\ pc'[r] = "done"
           /\ Route(req[r]) = "ai"
           /\ loc'[r].outcome \in {"error", "throw"})
          => (/\ openaiKey /\ ~Blank(req[r].body.prompt)
              /\ Unstamped(resp'[r]) = JsonError(502, "AI request failed"))]_vars

\* A completion with a prompt was answered 502 after the upstream answered
\* 404.
C19_Witness ==
  \E r \in Slots :
    /\ pc[r] = "done" /\ Route(req[r]) = "ai"
    /\ req[r].body.prompt = <<" ", "p">>
    /\ loc[r].outcome = "error" /\ loc[r].status = 404
    /\ resp[r].status = 502

\* The number a paging value stands for as C20 states it: the value when it
\* is a decimal integer string above zero, the default otherwise.
PagingAsClaimed(value, default) ==
  IF IsString(value) /\ IsDecimal(value) /\ ParseInt(value).val > 0
  THEN ParseInt(value).val
  ELSE default

\* C20: the page and per_page of the search sent upstream are positive
\* integers: the value of the query parameter when it is a valid positive
\* integer, otherwise (absent, non-positive, non-numeric) 1 for page and 10
\* for per_page.
C20_PexelsPaging ==
  \A r \in Slots :
    (pc[r] = "call" /\ Route(req[r]) = "pexels")
    => (/\ loc[r].sent.page >= 1 /\ loc[r].sent.per_page >= 1
        /\ loc[r].sent.page = PagingAsClaimed(req[r].query.page, 1)
        /\ loc[r].sent.per_page = PagingAsClaimed(req[r].query.per_page, 10))

\* ------------------------------------------------------------------ claims: wildcard matching

\* C21: the guard lets a request with an Origin through exactly when an
\* entry of the allow-list (the texts between commas, trimmed, the empty
\* ones ignored) accepts the origin: an entry with "*" when the whole origin
\* is the entry with each "*" replaced by some text, possibly empty, every
\* other character literal; an entry without "*" when it is the origin
\* itself. The matched origin is then the request's origin; an empty list
\* accepts no origin.
C21_WildcardMatching ==
  \A r \in Slots :
    (pc[r] = "done" /\ req[r].origin # <<>>)
    => LET matched == findMatchingOrigin(req[r].origin, parseAllowedOrigins(originConfig))
           accepted == OriginAccepted(req[r].origin, originConfig)
       IN /\ accepted <=> matched # <<>>
          /\ accepted => (matched = req[r].origin /\ resp[r].headers.acao = req[r].origin)
          /\ ~accepted <=> resp[r].status = 403
          /\ AllowEntries(originConfig) = {} => resp[r].status = 403

\* An origin was let through by the entry "*.a" of a list written with a
\* leading blank, the star standing for a letter.
C21_Witness ==
  \E r \in Slots :
    /\ pc[r] = "done" /\ resp[r].status = 200
    /\ originConfig = <<" ", "*", ".", "a">>
    /\ req[r].origin = <<"x", ".", "a">>
    /\ resp[r].headers.acao = <<"x", ".", "a">>

\* ------------------------------------------------------------------ claims: control flow

\* C22: a request has no response while its handler is at a backend call;
\* a backend step that does not succeed (failure response, exception,
\* unparsable answer) ends the handler then and there with an error
\* response: no further backend step of that request follows, the call is
\* not made again, and the response stays as it is until it is sent.
C22_NoRetry ==
  [][\A r \in Slots :
       /\ pc[r] \in {"call", "readback"} => resp[r] = NoResp
       /\ (/\ pc[r] \in {"call", "readback"} /\ pc'[r] # pc[r]
           /\ loc'[r].outcome # "ok")
          => (/\ pc'[r] = "done"
              /\ resp'[r].kind = "error" /\ resp'[r].status >= 400)
       /\ pc[r] = "readback" => pc'[r] \in {"readback", "done"}
       /\ pc[r] = "done"
          => \/ pc'[r] = "done" /\ resp'[r] = resp[r] /\ loc'[r] = loc[r]
             \/ pc'[r] = "idle" /\ store' = store]_vars

\* A create whose insert succeeded and whose read-back threw was answered
\* 500, the inserted row in the store.
C22_Witness ==
  \E r \in Slots :
    /\ pc[r] = "done" /\ Route(req[r]) = "create"
    /\ loc[r].outcome = "throw" /\ loc[r].rowid >= 1
    /\ resp[r].status = 500
    /\ Select(store, loc[r].rowid) # <<>>

\* C23: of two deletes of the same stored project that run concurrently and
\* whose backend calls are answered, the one whose call comes first answers
\* 200 {ok: true} and the other answers 404, and the project is absent
\* afterwards.
C23_ConcurrentDeletes ==
  [][\A r, q \in Slots :
       (/\ pc[r] = "call" /\ pc'[r] = "done" /\ loc'[r].outcome = "ok"
        /\ SameDelete(r, q))
       => LET id == ParseInt(req[r].id).val IN
          /\ (pc[q] = "call" /\ Select(store, id) # <<>>)
             => (/\ resp'[r].status = 200 /\ resp'[r].kind = "ok"
                 /\ Select(store', id) = <<>>
                 /\ pc'[q] = "call")
          /\ (pc[q] = "done" /\ resp[q].status = 200)
             => (/\ resp'[r].status = 404 /\ resp'[r].error = "Project not found"
                 /\ resp'[q] = resp[q]
                 /\ Select(store', id) = <<>>)]_vars

\* C24: a project request that is answered 400 has made no backend call,
\* and the step that answers it leaves the store as it was.
C24_ValidationBeforeEffect ==
  \A r \in Slots :
    (/\ pc[r] = "done" /\ resp[r].status = 400
     /\ Route(req[r]) \in {"get", "create", "update", "delete", "list"})
    => (~loc[r].sent.called /\ loc[r].outcome = "none")

====
